---- MODULE Spec2Model ----
(***************************************************************************)
(* agent_adapter: the AgentAdapter protocol (meta.py) and its two          *)
(* adapters, PydanticAdapter and DSPyAdapter (adapters.py).                *)
(*                                                                         *)
(* One caller task runs one operation at a time (produce on either         *)
(* adapter, a direct type_builder call, or the runtime isinstance check    *)
(* against the protocol), while DSPyAdapter constructions run concurrently *)
(* and write the process-wide dspy.settings.lm.                            *)
(*                                                                         *)
(* Python values are modelled as follows: None, True, False and the        *)
(* Ellipsis are the strings "None", "True", "False" and "..."; a dict is   *)
(* the sequence of its [key, value] entries in insertion order; **kwargs   *)
(* is a function from the keys present to their values; a type is the      *)
(* record of its __name__ and its repr().                                  *)
(***************************************************************************)
EXTENDS Naturals, Sequences, FiniteSets, TLC

VARIABLES
    lm,        \* dspy.settings.lm, the process-wide model client
    inst,      \* per DSPyAdapter instance: progress of its __init__
    lastDone,  \* history: model of the most recently completed __init__
    call,      \* the caller task: operation, arguments, locals, position
    reqs       \* requests the current call has issued to the framework

vars == <<lm, inst, lastDone, call, reqs>>

----------------------------------------------------------------------------
(* Bounds and sample inputs *)

MaxFields == 2

None == "None"

Models == {"groq/qwen/qwen3-32b", "openai/gpt-4o-mini"}

Instances == {"adapter1", "adapter2"}

\* What a completed framework call can hand back, and what it can raise.
Payloads == {"capital=Ankara", "capital=arakna"}

FrameworkErrors == {"ModelHTTPError", "TimeoutError"}

FieldNames == {"capital", "country", "user_prompt"}

StrT == [name |-> "str", repr |-> "<class 'str'>"]

ListIntT == [name |-> "list", repr |-> "list[int]"]

Template == "What is the capital of Turkiye?"

DefaultInstructions == "Given the fields, produce the fields."

\* The type each sample field is declared with.
TypeOf(field) == IF field = "capital" THEN StrT ELSE ListIntT

\* An output_schema: a dict of field name -> type, keys unique.
Schemas ==
    {s \in UNION {[1..n -> {[field |-> f, type |-> TypeOf(f)] : f \in FieldNames}] :
                    n \in 0..MaxFields} :
        \A i, j \in DOMAIN s : s[i].field = s[j].field => i = j}

\* The **kwargs a caller gives to DSPyAdapter.produce.
DSPyKwargValues(k) ==
    CASE k = "user_prompt" -> {"Ignore the template."}
      [] k = "string" -> {"True"}
      [] k = "instructions" -> {"", "write the city backwards"}
      [] k = "context" -> {"geography"}

DSPyKwargKeys == {"user_prompt", "string", "instructions", "context"}

DSPyKwargs ==
    UNION {{kw \in [ks -> UNION {DSPyKwargValues(k) : k \in DSPyKwargKeys}] :
                \A k \in ks : kw[k] \in DSPyKwargValues(k)} :
        ks \in SUBSET DSPyKwargKeys}

\* The **kwargs a caller gives to PydanticAdapter.produce (run configuration).
AgentKwargValues(k) ==
    CASE k = "deps" -> {"deps1"}
      [] k = "instructions" -> {"write the city backwards"}
      [] k = "output_type" -> {"str"}

AgentKwargKeys == {"deps", "instructions", "output_type"}

AgentKwargs ==
    UNION {{kw \in [ks -> UNION {AgentKwargValues(k) : k \in AgentKwargKeys}] :
                \A k \in ks : kw[k] \in AgentKwargValues(k)} :
        ks \in SUBSET AgentKwargKeys}

----------------------------------------------------------------------------
(* Python built-ins the adapters use *)

\* dict.pop(key, default) -> the value; the dict without the key is Without.
Pop(kwargs, key, default) ==
    IF key \in DOMAIN kwargs THEN kwargs[key] ELSE default

Without(kwargs, key) == [k \in DOMAIN kwargs \ {key} |-> kwargs[k]]

\* Python truth value of the values used here ("not x" is ~Truthy(x)).
Truthy(v) == v \notin {"False", "None", ""}

\* str.startswith
startswith(s, prefix) ==
    Len(s) >= Len(prefix) /\ SubSeq(s, 1, Len(prefix)) = prefix

\* dict.update({key: value}): replaces the value of an existing key in place,
\* appends a new key.
DictUpdate(d, key, value) ==
    IF \E i \in DOMAIN d : d[i].key = key
    THEN [i \in DOMAIN d |-> IF d[i].key = key THEN [key |-> key, value |-> value] ELSE d[i]]
    ELSE Append(d, [key |-> key, value |-> value])

RECURSIVE Join(_, _)
\* sep.join(parts)
Join(parts, sep) ==
    IF Len(parts) = 0 THEN ""
    ELSE IF Len(parts) = 1 THEN parts[1]
    ELSE parts[1] \o sep \o Join(Tail(parts), sep)

\* The orders in which iterating a Python set can yield its elements.
IterationOrders(S) ==
    {p \in [1..Cardinality(S) -> S] : \A i, j \in DOMAIN p : p[i] = p[j] => i = j}

RECURSIVE IndexOf(_, _, _)
\* First position >= i at which sep occurs in s, 0 when there is none.
IndexOf(s, sep, i) ==
    IF i + Len(sep) - 1 > Len(s) THEN 0
    ELSE IF SubSeq(s, i, i + Len(sep) - 1) = sep THEN i
    ELSE IndexOf(s, sep, i + 1)

RECURSIVE Split(_, _)
\* str.split(sep)
Split(s, sep) ==
    LET i == IndexOf(s, sep, 1) IN
    IF i = 0 THEN <<s>>
    ELSE <<SubSeq(s, 1, i - 1)>> \o Split(SubSeq(s, i + Len(sep), Len(s)), sep)

----------------------------------------------------------------------------
(* The wrapped frameworks, at the boundary the adapters use *)

NoSig == [kind |-> "None", name |-> "", fields |-> <<>>, instructions |-> None, text |-> ""]

\* pydantic.create_model(name, __base__=base, **field_definitions): a new class
\* with one field per definition.  A dspy.Signature subclass created without a
\* docstring carries the framework's default instructions.
create_model(name, base, field_definitions) ==
    [kind |-> base, name |-> name, fields |-> field_definitions,
     instructions |-> IF base = "dspy.Signature" THEN DefaultInstructions ELSE None,
     text |-> ""]

\* A Python str used as a signature.
StrSig(s) == [kind |-> "str", name |-> "", fields |-> <<>>, instructions |-> None, text |-> s]

\* Signature.with_instructions(instructions): the same fields, new instructions;
\* dspy regenerates the default instructions when given None.
with_instructions(sig, instructions) ==
    [sig EXCEPT !.instructions =
        IF instructions = None THEN DefaultInstructions ELSE instructions]

RECURSIVE DictOf(_)
\* dict(entries): a later entry replaces an earlier one with the same key.
DictOf(entries) ==
    IF Len(entries) = 0 THEN <<>>
    ELSE LET e == entries[Len(entries)] IN
         DictUpdate(DictOf(SubSeq(entries, 1, Len(entries) - 1)), e.key, e.value)

\* The fields "name: type, name: type" of one side of a string signature.
ParseFields(s, spec) ==
    IF s = "" THEN <<>>
    ELSE LET parts == Split(s, ", ") IN
         [i \in DOMAIN parts |->
            LET nv == Split(parts[i], ": ") IN
            [key |-> nv[1],
             value |-> [type |-> [name |-> nv[2], repr |-> nv[2]], spec |-> spec]]]

\* dspy.Signature(signature_string, **kw): parses "inputs -> outputs".
Signature(signature, kw) ==
    LET io == Split(signature.text, " -> ") IN
    [kind |-> "dspy.Signature", name |-> "StringSignature",
     fields |-> DictOf(ParseFields(io[1], "InputField()")
                        \o ParseFields(io[2], "OutputField()")),
     instructions |-> IF "instructions" \in DOMAIN kw THEN kw["instructions"]
                      ELSE DefaultInstructions,
     text |-> signature.text]

InputFields(sig) == {e.key : e \in {sig.fields[i] : i \in {j \in DOMAIN sig.fields : sig.fields[j].value.spec = "InputField()"}}}

OutputFields(sig) == {e.key : e \in {sig.fields[i] : i \in {j \in DOMAIN sig.fields : sig.fields[j].value.spec = "OutputField()"}}}

----------------------------------------------------------------------------
(* meta.py *)

\* The members the runtime-checkable protocol AgentAdapter declares.
AgentAdapterMembers == {"produce", "produce_sync"}

(* adapters.py *)

\* The attributes an instance of each adapter class exposes (PydanticAdapter
\* inherits run from pydantic_ai.Agent).
ClassAttributes(cls) ==
    CASE cls = "PydanticAdapter" -> {"type_builder", "produce", "run"}
      [] cls = "DSPyAdapter" -> {"__init__", "type_builder", "produce"}

AdapterClasses == {"PydanticAdapter", "DSPyAdapter"}

\* isinstance(adapter, AgentAdapter) for a runtime_checkable Protocol: every
\* declared member must be an attribute of the instance.
isinstance_AgentAdapter(cls) == AgentAdapterMembers \subseteq ClassAttributes(cls)

make_repr(cls) ==
    LET _type_repr == cls.repr IN
    IF ~startswith(_type_repr, "<class") THEN _type_repr ELSE cls.name

\* Variant: fields declared with a default of None instead of the Ellipsis.
PydanticFieldDefinitions_optional(output_schema) ==
    [i \in DOMAIN output_schema |->
        [key |-> output_schema[i].field,
         value |-> [type |-> output_schema[i].type, spec |-> "None"]]]

\* PydanticAdapter.type_builder: field -> (type_, ...)
PydanticFieldDefinitions(output_schema) ==
    [i \in DOMAIN output_schema |->
        [key |-> output_schema[i].field,
         value |-> [type |-> output_schema[i].type, spec |-> "..."]]]

PydanticAdapter_type_builder(output_schema) ==
    create_model("_OutputModel", "BaseModel", PydanticFieldDefinitions(output_schema))

\* DSPyAdapter.type_builder: field -> (type_, OutputField()), then
\* update({"user_prompt": (str, InputField())}).
DSPyFieldDefinitions(output_schema) ==
    DictUpdate(
        [i \in DOMAIN output_schema |->
            [key |-> output_schema[i].field,
             value |-> [type |-> output_schema[i].type, spec |-> "OutputField()"]]],
        "user_prompt", [type |-> StrT, spec |-> "InputField()"])

\* The set comprehension {f"{field}: {make_repr(type_)}" ...}.
DSPyAnnotations(output_schema) ==
    {output_schema[i].field \o ": " \o make_repr(output_schema[i].type) :
        i \in DOMAIN output_schema}

\* DSPyAdapter.type_builder: the values it can return.  In string mode the
\* annotations are joined in the iteration order of a set of strings, which the
\* interpreter does not fix.
DSPyAdapter_type_builder(output_schema, kwargs) ==
    IF ~Truthy(Pop(kwargs, "string", "False"))
    THEN {create_model("_OutputSignature", "dspy.Signature",
                       DSPyFieldDefinitions(output_schema))}
    ELSE {StrSig("user_prompt: str -> " \o Join(order, ", ")) :
            order \in IterationOrders(DSPyAnnotations(output_schema))}

----------------------------------------------------------------------------
(* State *)

DefaultMaxTokens == 4000

\* LM(model=model, provider=provider, max_tokens=max_tokens, temperature=temperature)
LM(model) ==
    [model |-> model, provider |-> None, max_tokens |-> DefaultMaxTokens,
     temperature |-> "1.0"]

\* No client configured yet.
NoLM == [model |-> None, provider |-> None, max_tokens |-> 0, temperature |-> None]

NoResult == [kind |-> "None", output |-> None]

IdleCall ==
    [op |-> "none", pc |-> "idle", self |-> None, template |-> "",
     output_schema |-> <<>>, given |-> <<>>, kwargs |-> <<>>, string |-> "False",
     sig |-> NoSig, result |-> NoResult, error |-> None]

Init ==
    /\ lm = NoLM
    /\ inst = [i \in Instances |-> [pc |-> "new", lm |-> NoLM]]
    /\ lastDone = NoLM
    /\ call = IdleCall
    /\ reqs = <<>>

----------------------------------------------------------------------------
(* DSPyAdapter.__init__ *)

\* dspy.settings.configure(lm=new): the ambient client after the call.
configure(settings_lm, new) == new

\* The argument of configure is evaluated first: the client is built.
DSPyInitBuildLM(i, model) ==
    /\ inst[i].pc = "new"
    /\ inst' = [inst EXCEPT ![i] = [pc |-> "built", lm |-> LM(model)]]
    /\ UNCHANGED <<lm, lastDone, call, reqs>>

\* dspy.settings.configure(lm=...) writes the process-wide setting; __init__
\* returns.
DSPyInitConfigure(i) ==
    /\ inst[i].pc = "built"
    /\ lm' = configure(lm, inst[i].lm)
    /\ lastDone' = inst[i].lm
    /\ inst' = [inst EXCEPT ![i].pc = "done"]
    /\ UNCHANGED <<call, reqs>>

----------------------------------------------------------------------------
(* DSPyAdapter.produce *)

\* Variant: each instance predicts on the client its own __init__ built.
PredictLM_own(self) == inst[self].lm

\* The client a prediction runs on: dspy.Predict reads the ambient setting.
PredictLM(self) == lm

\* Lines 99-101: the pops of user_prompt and string, then type_builder, whose
\* create_model call (structured mode) can raise.
DSPyProduceBuild(self, output_schema, kwargs) ==
    /\ call.pc = "idle"
    /\ inst[self].pc = "done"
    /\ LET kw1 == Without(kwargs, "user_prompt")
           string == Pop(kw1, "string", "False")
           kw2 == Without(kw1, "string")
           started == [IdleCall EXCEPT !.op = "DSPyAdapter.produce", !.self = self,
                           !.template = Template, !.output_schema = output_schema,
                           !.given = kwargs, !.kwargs = kw2, !.string = string]
       IN \/ \E sig \in DSPyAdapter_type_builder(output_schema, [string |-> string]) :
                call' = [started EXCEPT !.pc = "built", !.sig = sig]
          \/ /\ ~Truthy(string)
             /\ call' = [started EXCEPT !.pc = "raised", !.error = "TypeConstructionError"]
    /\ reqs' = <<>>
    /\ UNCHANGED <<lm, inst, lastDone>>

\* Variant: supplied instructions are also declared as an input field.
PredictSignature_field(sig, string, instructions) ==
    LET kw == IF ~Truthy(instructions) THEN <<>> ELSE [instructions |-> instructions]
        built == IF ~Truthy(string) THEN with_instructions(sig, instructions)
                 ELSE Signature(sig, kw)
    IN IF ~Truthy(instructions) THEN built
       ELSE [built EXCEPT !.fields =
                DictUpdate(built.fields, "instructions",
                           [type |-> StrT, spec |-> "InputField()"])]

\* The signature handed to dspy.Predict (lines 102-105 and 108).
PredictSignature(sig, string, instructions) ==
    LET kw == IF ~Truthy(instructions) THEN <<>> ELSE [instructions |-> instructions] IN
    IF ~Truthy(string) THEN with_instructions(sig, instructions)
    ELSE Signature(sig, kw)

\* The keyword arguments of the prediction call (lines 106 and 109).
PredictInputs(string, kwargs, template) ==
    IF ~Truthy(string)
    THEN [k \in DOMAIN kwargs \cup {"user_prompt"} |->
            IF k = "user_prompt" THEN template ELSE kwargs[k]]
    ELSE [k \in {"user_prompt"} |-> template]

\* Lines 102-109: the pop of instructions, the Predict object, the call of the
\* prediction.  Building the signature can raise; otherwise the request goes out
\* on the ambient client.
DSPyProducePredict ==
    /\ call.op = "DSPyAdapter.produce"
    /\ call.pc = "built"
    /\ LET instructions == Pop(call.kwargs, "instructions", None)
           kwargs == Without(call.kwargs, "instructions")
       IN \/ /\ call' = [call EXCEPT !.pc = "awaiting", !.kwargs = kwargs]
             /\ reqs' = Append(reqs,
                    [target |-> "dspy.Predict", lm |-> PredictLM(call.self),
                     args |-> <<>>,
                     signature |-> PredictSignature(call.sig, call.string, instructions),
                     kwargs |-> PredictInputs(call.string, kwargs, call.template),
                     outcome |-> "pending", output |-> ""])
          \/ /\ call' = [call EXCEPT !.pc = "raised", !.kwargs = kwargs,
                                     !.error = "SignatureError"]
             /\ reqs' = reqs
    /\ UNCHANGED <<lm, inst, lastDone>>

\* The prediction call returns: produce returns the Prediction object.
DSPyProduceReturn(payload) ==
    /\ call.op = "DSPyAdapter.produce"
    /\ call.pc = "awaiting"
    /\ reqs' = [reqs EXCEPT ![Len(reqs)].outcome = "returned",
                            ![Len(reqs)].output = payload]
    /\ call' = [call EXCEPT !.pc = "returned",
                            !.result = [kind |-> "Prediction", output |-> payload]]
    /\ UNCHANGED <<lm, inst, lastDone>>

----------------------------------------------------------------------------
(* PydanticAdapter.produce *)

\* Line 40: the argument output_type=self.type_builder(output_schema) is
\* evaluated before the call of run; create_model can raise.
PydanticProduceBuild(output_schema, kwargs) ==
    /\ call.pc = "idle"
    /\ LET started == [IdleCall EXCEPT !.op = "PydanticAdapter.produce",
                           !.self = "agent", !.template = Template,
                           !.output_schema = output_schema,
                           !.given = kwargs, !.kwargs = kwargs]
       IN \/ call' = [started EXCEPT !.pc = "built",
                                     !.sig = PydanticAdapter_type_builder(output_schema)]
          \/ call' = [started EXCEPT !.pc = "raised", !.error = "TypeConstructionError"]
    /\ reqs' = <<>>
    /\ UNCHANGED <<lm, inst, lastDone>>

\* Variant: the caller's kwargs are not passed on.
RunRequest_nokwargs(template, output_type, kwargs) ==
    [target |-> "Agent.run", lm |-> NoLM, args |-> <<template>>,
     signature |-> output_type, kwargs |-> <<>>,
     outcome |-> "pending", output |-> ""]

\* The arguments of self.run(template, output_type=..., **kwargs).
RunRequest(template, output_type, kwargs) ==
    [target |-> "Agent.run", lm |-> NoLM, args |-> <<template>>,
     signature |-> output_type, kwargs |-> kwargs,
     outcome |-> "pending", output |-> ""]

\* Lines 39-41: await self.run(...).  A caller kwarg named output_type collides
\* with the explicit keyword: Python raises TypeError before run is entered.
PydanticProduceRun ==
    /\ call.op = "PydanticAdapter.produce"
    /\ call.pc = "built"
    /\ IF "output_type" \in DOMAIN call.kwargs
       THEN /\ call' = [call EXCEPT !.pc = "raised", !.error = "TypeError"]
            /\ reqs' = reqs
       ELSE /\ call' = [call EXCEPT !.pc = "awaiting"]
            /\ reqs' = Append(reqs, RunRequest(call.template, call.sig, call.kwargs))
    /\ UNCHANGED <<lm, inst, lastDone>>

\* (await self.run(...)).output
RunOutput(run) == [kind |-> run.output_type, output |-> run.output]

\* The run completes with an instance of the requested output type: produce
\* returns its .output.
PydanticProduceReturn(payload) ==
    /\ call.op = "PydanticAdapter.produce"
    /\ call.pc = "awaiting"
    /\ reqs' = [reqs EXCEPT ![Len(reqs)].outcome = "returned",
                            ![Len(reqs)].output = payload]
    /\ LET run == [kind |-> "AgentRunResult",
                   output_type |-> reqs[Len(reqs)].signature.name,
                   output |-> payload]
       IN call' = [call EXCEPT !.pc = "returned", !.result = RunOutput(run)]
    /\ UNCHANGED <<lm, inst, lastDone>>

----------------------------------------------------------------------------
(* Both adapters: the delegated call fails *)

\* Variant: a failed request is caught and issued again.
AfterFrameworkError_retry(c, e) == [c EXCEPT !.pc = "built"]

\* Where control goes when the delegated framework call raises: neither produce
\* has a handler, so the exception leaves produce.
AfterFrameworkError(c, e) == [c EXCEPT !.pc = "raised", !.error = e]

FrameworkRaises(e) ==
    /\ call.op \in {"DSPyAdapter.produce", "PydanticAdapter.produce"}
    /\ call.pc = "awaiting"
    /\ reqs' = [reqs EXCEPT ![Len(reqs)].outcome = e]
    /\ call' = AfterFrameworkError(call, e)
    /\ UNCHANGED <<lm, inst, lastDone>>

----------------------------------------------------------------------------
(* Direct calls of the type builders and the runtime protocol check *)

DSPyTypeBuilder(output_schema, kwargs) ==
    /\ call.pc = "idle"
    /\ LET started == [IdleCall EXCEPT !.op = "DSPyAdapter.type_builder",
                           !.output_schema = output_schema, !.given = kwargs,
                           !.kwargs = Without(kwargs, "string"),
                           !.string = Pop(kwargs, "string", "False")]
       IN \/ \E sig \in DSPyAdapter_type_builder(output_schema, kwargs) :
                call' = [started EXCEPT !.pc = "returned", !.sig = sig]
          \/ /\ ~Truthy(Pop(kwargs, "string", "False"))
             /\ call' = [started EXCEPT !.pc = "raised", !.error = "TypeConstructionError"]
    /\ reqs' = <<>>
    /\ UNCHANGED <<lm, inst, lastDone>>

PydanticTypeBuilder(output_schema) ==
    /\ call.pc = "idle"
    /\ LET started == [IdleCall EXCEPT !.op = "PydanticAdapter.type_builder",
                           !.output_schema = output_schema]
       IN \/ call' = [started EXCEPT !.pc = "returned",
                                     !.sig = PydanticAdapter_type_builder(output_schema)]
          \/ call' = [started EXCEPT !.pc = "raised", !.error = "TypeConstructionError"]
    /\ reqs' = <<>>
    /\ UNCHANGED <<lm, inst, lastDone>>

\* isinstance(adapter, AgentAdapter) on an instance of cls.
IsInstanceCheck(cls) ==
    /\ call.pc = "idle"
    /\ cls = "DSPyAdapter" => \E i \in Instances : inst[i].pc = "done"
    /\ call' = [IdleCall EXCEPT !.op = "isinstance", !.self = cls, !.pc = "returned",
                    !.result = [kind |-> "bool",
                                output |-> IF isinstance_AgentAdapter(cls)
                                           THEN "True" ELSE "False"]]
    /\ reqs' = <<>>
    /\ UNCHANGED <<lm, inst, lastDone>>

\* The caller takes the result or the exception and is free for the next call.
Finish ==
    /\ call.pc \in {"returned", "raised"}
    /\ call' = IdleCall
    /\ reqs' = <<>>
    /\ UNCHANGED <<lm, inst, lastDone>>

----------------------------------------------------------------------------

Next ==
    \/ \E i \in Instances, model \in Models : DSPyInitBuildLM(i, model)
    \/ \E i \in Instances : DSPyInitConfigure(i)
    \/ \E self \in Instances, s \in Schemas, kw \in DSPyKwargs : DSPyProduceBuild(self, s, kw)
    \/ DSPyProducePredict
    \/ \E payload \in Payloads : DSPyProduceReturn(payload)
    \/ \E s \in Schemas, kw \in AgentKwargs : PydanticProduceBuild(s, kw)
    \/ PydanticProduceRun
    \/ \E payload \in Payloads : PydanticProduceReturn(payload)
    \/ \E e \in FrameworkErrors : FrameworkRaises(e)
    \/ \E s \in Schemas, kw \in {<<>>, [string |-> "True"]} : DSPyTypeBuilder(s, kw)
    \/ \E s \in Schemas : PydanticTypeBuilder(s)
    \/ \E cls \in AdapterClasses : IsInstanceCheck(cls)
    \/ Finish

Spec == Init /\ [][Next]_vars

----------------------------------------------------------------------------
(* Properties *)

IsDSPyProduce == call.op = "DSPyAdapter.produce"

IsPydanticProduce == call.op = "PydanticAdapter.produce"

Reserved == {"user_prompt", "string", "instructions"}

\* C1: whenever a DSPyAdapter.produce call issues its prediction, on whichever
\* instance, the client it runs on is the one configured by the most recently
\* completed DSPyAdapter construction.
C1_LastConstructionWins ==
    [][(Len(reqs') = Len(reqs) + 1 /\ reqs'[Len(reqs')].target = "dspy.Predict")
        => reqs'[Len(reqs')].lm = lastDone]_vars

\* A prediction issued on an instance constructed with another model than the
\* one the latest construction configured.
C1_Witness ==
    /\ IsDSPyProduce
    /\ call.pc = "awaiting"
    /\ inst[call.self].pc = "done"
    /\ inst[call.self].lm # reqs[1].lm
    /\ reqs[1].lm = lastDone

\* C2: the prediction is invoked, in structured and in string mode, with
\* user_prompt = template plus every kwarg left after user_prompt, string and
\* instructions were removed.
C2_RemainingKwargsForwarded ==
    (IsDSPyProduce /\ Len(reqs) >= 1) =>
        LET rest == DOMAIN call.given \ Reserved IN
        /\ DOMAIN reqs[1].kwargs = rest \cup {"user_prompt"}
        /\ reqs[1].kwargs["user_prompt"] = call.template
        /\ \A k \in rest : reqs[1].kwargs[k] = call.given[k]

\* The rendering the string mode is specified to give: the entries in the order
\* of the schema mapping.
InSchemaOrder(output_schema) ==
    "user_prompt: str -> "
        \o Join([i \in DOMAIN output_schema |->
                    output_schema[i].field \o ": " \o make_repr(output_schema[i].type)],
                ", ")

\* C3: in string mode type_builder returns, for a non-empty schema,
\* "user_prompt: str -> " followed by one "field: TypeRepr" entry per schema
\* entry, joined by ", ", in the order of the schema mapping.
C3_StringSignatureInSchemaOrder ==
    (/\ call.op = "DSPyAdapter.type_builder"
     /\ call.pc = "returned"
     /\ Truthy(call.string)
     /\ Len(call.output_schema) >= 1)
        => /\ call.sig.kind = "str"
           /\ call.sig.text = InSchemaOrder(call.output_schema)

\* C4: in structured mode type_builder returns, for a non-empty schema, a
\* signature whose only input field is user_prompt: str and which has one output
\* field per schema entry, with that entry's name and type.
C4_EverySchemaFieldIsOutput ==
    (/\ call.op = "DSPyAdapter.type_builder"
     /\ call.pc = "returned"
     /\ ~Truthy(call.string)
     /\ Len(call.output_schema) >= 1)
        => LET fields == call.sig.fields IN
           /\ {<<fields[i].key, fields[i].value.type>> :
                    i \in {j \in DOMAIN fields : fields[j].value.spec = "InputField()"}}
                = {<<"user_prompt", StrT>>}
           /\ {<<fields[i].key, fields[i].value.type>> :
                    i \in {j \in DOMAIN fields : fields[j].value.spec = "OutputField()"}}
                = {<<call.output_schema[i].field, call.output_schema[i].type>> :
                        i \in DOMAIN call.output_schema}

\* C5: PydanticAdapter.type_builder returns a record type whose fields are
\* exactly the schema's (name, type) pairs, each required, none added or omitted.
C5_RecordTypeHasExactlySchemaFields ==
    (call.op = "PydanticAdapter.type_builder" /\ call.pc = "returned") =>
        LET fields == call.sig.fields IN
        /\ call.sig.kind = "BaseModel"
        /\ Len(fields) = Len(call.output_schema)
        /\ {<<fields[i].key, fields[i].value.type, fields[i].value.spec>> :
                i \in DOMAIN fields}
             = {<<call.output_schema[i].field, call.output_schema[i].type, "...">> :
                    i \in DOMAIN call.output_schema}

C5_Witness ==
    /\ call.op = "PydanticAdapter.type_builder"
    /\ call.pc = "returned"
    /\ Len(call.output_schema) = MaxFields
    /\ Len(call.sig.fields) = MaxFields
    /\ \E i \in DOMAIN call.sig.fields : call.sig.fields[i].key = "user_prompt"

\* C6: the signature DSPyAdapter.produce hands to the prediction differs from
\* the one it would hand over without an instructions kwarg in nothing but the
\* instructions: the input and output fields are the same, in either mode.
C6_InstructionsLeaveFieldsAlone ==
    (IsDSPyProduce /\ Len(reqs) >= 1) =>
        LET given == reqs[1].signature
            plain == PredictSignature(call.sig, call.string, None)
        IN /\ InputFields(given) = InputFields(plain)
           /\ OutputFields(given) = OutputFields(plain)
           /\ given.fields = plain.fields
           /\ [given EXCEPT !.instructions = None] = [plain EXCEPT !.instructions = None]

C6_Witness ==
    /\ IsDSPyProduce
    /\ Len(reqs) = 1
    /\ Truthy(call.string)
    /\ Len(call.output_schema) = MaxFields
    /\ "instructions" \in DOMAIN call.given
    /\ reqs[1].signature.instructions = "write the city backwards"
    /\ OutputFields(reqs[1].signature) # {}

\* C7: the runtime check isinstance(adapter, AgentAdapter) succeeds for an
\* instance of either adapter.
C7_AdaptersConformAtRuntime ==
    (call.op = "isinstance" /\ call.pc = "returned") => call.result.output = "True"

\* C8: PydanticAdapter.produce issues its one run request only with the record
\* type built from the schema in hand, passing the template, that type as the
\* output type and the caller's kwargs unchanged; it never issues a second one;
\* and when it returns, it returns the output of that completed run.
C8_OneRunRequestWithBuiltType ==
    IsPydanticProduce =>
        /\ Len(reqs) <= 1
        /\ call.pc \in {"awaiting", "returned"} => Len(reqs) = 1
        /\ Len(reqs) = 1 =>
            /\ reqs[1].target = "Agent.run"
            /\ reqs[1].args = <<call.template>>
            /\ reqs[1].signature = PydanticAdapter_type_builder(call.output_schema)
            /\ reqs[1].signature = call.sig
            /\ reqs[1].kwargs = call.given
        /\ call.pc = "returned" =>
            /\ reqs[1].outcome = "returned"
            /\ call.result = [kind |-> "_OutputModel", output |-> reqs[1].output]

C8_Witness ==
    /\ IsPydanticProduce
    /\ call.pc = "returned"
    /\ DOMAIN call.given = {"deps", "instructions"}
    /\ Len(call.output_schema) = MaxFields
    /\ call.result.output = "capital=Ankara"

\* C9: in both adapters an error raised by a step of produce reaches the caller
\* as raised; a failure to build the type or the signature leaves no request
\* issued; a request that failed is the only request of the call.
C9_ErrorsPropagateWithoutRetry ==
    (IsDSPyProduce \/ IsPydanticProduce) =>
        /\ Len(reqs) <= 1
        /\ (Len(reqs) = 1 /\ reqs[1].outcome \in FrameworkErrors) =>
                (call.pc = "raised" /\ call.error = reqs[1].outcome)
        /\ (call.pc = "raised" /\ call.error \notin FrameworkErrors) =>
                (Len(reqs) = 0
                 /\ call.error \in {"TypeConstructionError", "TypeError", "SignatureError"})
        /\ call.pc = "raised" => call.result = NoResult

C9_Witness ==
    /\ IsDSPyProduce
    /\ call.pc = "raised"
    /\ call.error = "TimeoutError"
    /\ Len(reqs) = 1
    /\ reqs[1].outcome = "TimeoutError"

\* C10: without a non-empty instructions kwarg the signature given to the
\* prediction carries the instructions the built signature has by default, in
\* structured mode as in string mode.
C10_DefaultInstructionsKept ==
    (/\ IsDSPyProduce
     /\ Len(reqs) >= 1
     /\ ~Truthy(Pop(call.given, "instructions", None)))
        => reqs[1].signature.instructions = DefaultInstructions

====
